---- MODULE Spec2Model ----
(***************************************************************************)
(* Model of sz.py: one run of the script.  The module-level configuration  *)
(* check, fetch_web_data (HTTP GET, table lookup, row walk with its        *)
(* rowspan state, exception handler), process_data (grouping pass and      *)
(* summary construction), send_email_with_excel (message construction,     *)
(* SMTP connect / login / sendmail, exception handler) and the __main__    *)
(* sequence that chains them.                                              *)
(*                                                                         *)
(* Texts are sequences of one-character strings so that get_text(strip=    *)
(* True) and int() are computed rather than assumed.  The page's labels    *)
(* are written in ASCII: "xj" for the subtotal label, "zj" for the total   *)
(* label, "zz" for the housing detail label.                               *)
(***************************************************************************)
EXTENDS Integers, Sequences, FiniteSets, TLC

VARIABLES
    env,             \* os.environ values of the three configuration names
    pc,              \* position of the run in the script
    out,             \* lines printed so far (message tags, in order)
    raised,          \* exceptions raised so far: <<function, class>>
    trs,             \* fetch_web_data: table.find_all('tr')
    i,               \* fetch_web_data: index in trs of the row being walked
    raw_data,        \* fetch_web_data: records collected so far
    current_region,  \* fetch_web_data: RowSpanState.currentRegion
    rowspan_left,    \* fetch_web_data: RowSpanState.remainingSpanRows
    raw_df,          \* __main__: result of fetch_web_data
    j,               \* process_data: index in raw_df of the row being grouped
    current_group,   \* process_data: the open group
    processed,       \* process_data: the closed groups
    processed_df,    \* __main__: result of process_data
    httpGets,        \* number of requests.get calls
    processCalls,    \* number of process_data calls
    smtpConnects,    \* number of smtplib.SMTP_SSL(...) calls
    smtpLogins,      \* number of server.login calls
    smtpSends        \* number of server.sendmail calls

vars == <<env, pc, out, raised, trs, i, raw_data, current_region, rowspan_left,
          raw_df, j, current_group, processed, processed_df,
          httpGets, processCalls, smtpConnects, smtpLogins, smtpSends>>

fetchLocals == <<trs, i, raw_data, current_region, rowspan_left>>
processLocals == <<j, current_group, processed>>
counters == <<httpGets, processCalls, smtpConnects, smtpLogins, smtpSends>>

(***************************************************************************)
(* Bounds                                                                  *)
(***************************************************************************)
\* largest number of rows below the header row in a fetched table
MaxRows == 5

(***************************************************************************)
(* Values                                                                  *)
(***************************************************************************)
\* Python's None; no text contains this element
None == <<"None">>

Whitespace == {" "}

Digits == {"0", "1", "2", "3", "4", "5", "6", "7", "8", "9"}

DigitValue(c) ==
    CASE c = "0" -> 0 [] c = "1" -> 1 [] c = "2" -> 2 [] c = "3" -> 3
      [] c = "4" -> 4 [] c = "5" -> 5 [] c = "6" -> 6 [] c = "7" -> 7
      [] c = "8" -> 8 [] c = "9" -> 9

RECURSIVE LStrip(_)
LStrip(s) ==
    IF s # <<>> /\ Head(s) \in Whitespace THEN LStrip(Tail(s)) ELSE s

RECURSIVE RStrip(_)
RStrip(s) ==
    IF s # <<>> /\ s[Len(s)] \in Whitespace
    THEN RStrip(SubSeq(s, 1, Len(s) - 1))
    ELSE s

\* cell.get_text(strip=True) of a cell holding one text node
get_text(cell) == RStrip(LStrip(cell.text))

\* the digits of an int() literal after stripping and removing the sign
IntBody(s) ==
    LET t == RStrip(LStrip(s))
    IN IF t # <<>> /\ Head(t) \in {"-", "+"} THEN Tail(t) ELSE t

\* int(s) raises ValueError unless this holds
IsIntLiteral(s) ==
    /\ IntBody(s) # <<>>
    /\ \A k \in 1..Len(IntBody(s)) : IntBody(s)[k] \in Digits

RECURSIVE DigitsValue(_)
DigitsValue(d) ==
    IF d = <<>> THEN 0
    ELSE 10 * DigitsValue(SubSeq(d, 1, Len(d) - 1)) + DigitValue(d[Len(d)])

\* int(s) for a literal
int(s) ==
    LET t == RStrip(LStrip(s))
    IN IF Head(t) = "-" THEN 0 - DigitsValue(IntBody(s)) ELSE DigitsValue(IntBody(s))

(***************************************************************************)
(* The fetched page                                                        *)
(***************************************************************************)
TH(span, text) == [name |-> "th", attrs |-> {<<"rowspan", span>>}, text |-> text]

THplain(text) == [name |-> "th", attrs |-> {}, text |-> text]

TD(text) == [name |-> "td", attrs |-> {}, text |-> text]

TDspan(span, text) == [name |-> "td", attrs |-> {<<"rowspan", span>>}, text |-> text]

\* 'rowspan' in cell.attrs
HasAttr(cell, a) == \E p \in cell.attrs : p[1] = a

\* cell['rowspan']
Attr(cell, a) == (CHOOSE p \in cell.attrs : p[1] = a)[2]

\* the first tr of the table: the column headings
HeaderRow == <<THplain(<<"q">>), THplain(<<"l">>), THplain(<<"t">>), THplain(<<"m">>)>>

\* the rows a table may hold below its header row
RowSet ==
    { <<TH(<<"3">>, <<" ", "A", " ">>), TD(<<" ", "x", "j">>), TD(<<"1">>), TD(<<"9">>)>>,
      <<TD(<<"z", "z">>), TD(<<"2", " ">>), TD(<<"8">>)>>,
      <<TD(<<"z", "j">>), TD(<<"3">>), TD(<<" ", "7">>)>>,
      <<TH(<<"0">>, <<"B">>), TD(<<"z", "z">>), TD(<<"4">>), TD(<<"6">>)>>,
      <<TH(<<"x">>, <<"C">>), TD(<<"x", "j">>), TD(<<"5">>), TD(<<"5">>)>>,
      <<>>,
      <<TH(<<" ", "2">>, <<"D">>), TD(<<"6">>)>>,
      <<THplain(<<"E">>), TD(<<"z", "z">>), TD(<<"7">>), TD(<<"3">>), TD(<<"0">>)>>,
      <<TDspan(<<"2">>, <<"F">>), TD(<<"x", "j">>), TD(<<"8">>), TD(<<"2">>)>> }

SeqsUpTo(S, n) == UNION { [1..k -> S] : k \in 0..n }

\* the values table.find_all('tr') may have
Tables == {<<>>} \cup { <<HeaderRow>> \o t : t \in SeqsUpTo(RowSet, MaxRows) }

\* os.environ.get(name): unset, empty, or a value
EnvValues == {None, <<>>, <<"v">>}

\* exception classes the modelled calls raise
ExceptionClasses ==
    {"ConnectionError", "HTTPError", "UnicodeDecodeError", "ValueError",
     "ImportError", "OSError", "SMTPAuthenticationError", "SMTPException"}

(***************************************************************************)
(* Module level: configuration                                             *)
(***************************************************************************)
\* Python truthiness of an os.environ.get result
Truthy(v) == v # None /\ v # <<>>

\* variant: only unset values are rejected, empty strings pass
ConfigOK_NotNone(e) ==
    e.EMAIL_ACCOUNT # None /\ e.EMAIL_PASSWORD # None /\ e.RECIPIENT_EMAIL # None

\* all([EMAIL_ACCOUNT, EMAIL_PASSWORD, RECIPIENT_EMAIL])
ConfigOK(e) ==
    Truthy(e.EMAIL_ACCOUNT) /\ Truthy(e.EMAIL_PASSWORD) /\ Truthy(e.RECIPIENT_EMAIL)

Init ==
    /\ env \in [EMAIL_ACCOUNT : EnvValues, EMAIL_PASSWORD : EnvValues,
                RECIPIENT_EMAIL : EnvValues]
    /\ pc = "start"
    /\ out = <<>>
    /\ raised = <<>>
    /\ trs = <<>>
    /\ i = 0
    /\ raw_data = <<>>
    /\ current_region = None
    /\ rowspan_left = 0
    /\ raw_df = <<>>
    /\ j = 0
    /\ current_group = <<>>
    /\ processed = <<>>
    /\ processed_df = <<>>
    /\ httpGets = 0
    /\ processCalls = 0
    /\ smtpConnects = 0
    /\ smtpLogins = 0
    /\ smtpSends = 0

\* lines 25-28: raise EnvironmentError unless all three values are set
config_check ==
    /\ pc = "start"
    /\ IF ConfigOK(env)
       THEN /\ pc' = "main"
            /\ raised' = raised
       ELSE /\ pc' = "fatal"
            /\ raised' = Append(raised, <<"module", "EnvironmentError">>)
    /\ UNCHANGED <<env, out, fetchLocals, raw_df, processLocals, processed_df, counters>>

\* lines 155-157: print the banner and call fetch_web_data
main_start ==
    /\ pc = "main"
    /\ out' = Append(out, "banner")
    /\ pc' = "fetch_request"
    /\ UNCHANGED <<env, raised, fetchLocals, raw_df, processLocals, processed_df, counters>>

(***************************************************************************)
(* fetch_web_data                                                          *)
(***************************************************************************)
\* line 85: except Exception
fetch_catches(cls) == cls \in ExceptionClasses

\* where a raise inside the try block of fetch_web_data continues
fetch_raise(cls) == IF fetch_catches(cls) THEN "fetch_except" ELSE "crashed"

\* variant: the cell's tag is not examined
IsRegionHeader_AnyTag(cells) == HasAttr(cells[1], "rowspan")

\* line 61: cells[0].name == 'th' and 'rowspan' in cells[0].attrs
IsRegionHeader(cells) == cells[1].name = "th" /\ HasAttr(cells[1], "rowspan")

\* variant: the cells of a row with four or more cells are read from position 0
RowRecord_NoOffset(cells, region) ==
    IF Len(cells) >= 3
    THEN << [region |-> region, type |-> get_text(cells[1]),
             count |-> get_text(cells[2]), area |-> get_text(cells[3])] >>
    ELSE << >>

\* lines 67-82: the records a row appends to raw_data
RowRecord(cells, region) ==
    IF Len(cells) >= 4
    THEN << [region |-> region, type |-> get_text(cells[2]),
             count |-> get_text(cells[3]), area |-> get_text(cells[4])] >>
    ELSE IF Len(cells) = 3
    THEN << [region |-> region, type |-> get_text(cells[1]),
             count |-> get_text(cells[2]), area |-> get_text(cells[3])] >>
    ELSE << >>

\* line 56: table.find_all('tr')[1:] starts at the second tr
FirstRowIndex == 2

\* variant: the handler returns the records collected before the failure
fetch_except_result_Partial(collected) == collected

\* line 87: the value the handler returns
fetch_except_result(collected) == <<>>

\* lines 37-54: GET, raise_for_status, decode, find the table
fetch_request ==
    /\ pc = "fetch_request"
    /\ httpGets' = httpGets + 1
    /\ \/ \E cls \in {"ConnectionError", "HTTPError", "UnicodeDecodeError"} :
            /\ raised' = Append(raised, <<"fetch_web_data", cls>>)
            /\ pc' = fetch_raise(cls)
            /\ UNCHANGED <<out, fetchLocals, raw_df>>
       \/ /\ out' = Append(out, "debug_no_table")
          /\ raw_df' = <<>>
          /\ pc' = "main_check_raw"
          /\ UNCHANGED <<raised, fetchLocals>>
       \/ \E t \in Tables :
            /\ trs' = t
            /\ i' = FirstRowIndex
            /\ raw_data' = <<>>
            /\ current_region' = None
            /\ rowspan_left' = 0
            /\ pc' = "walk"
            /\ UNCHANGED <<out, raised, raw_df>>
    /\ UNCHANGED <<env, processLocals, processed_df,
                   processCalls, smtpConnects, smtpLogins, smtpSends>>

\* lines 56-82: one iteration of the row loop
walk_row ==
    /\ pc = "walk"
    /\ i <= Len(trs)
    /\ LET cells == trs[i] IN
         IF cells = <<>>
         THEN /\ i' = i + 1
              /\ UNCHANGED <<pc, raised, raw_data, current_region, rowspan_left>>
         ELSE IF IsRegionHeader(cells) /\ ~IsIntLiteral(Attr(cells[1], "rowspan"))
         THEN /\ current_region' = get_text(cells[1])
              /\ raised' = Append(raised, <<"fetch_web_data", "ValueError">>)
              /\ pc' = fetch_raise("ValueError")
              /\ UNCHANGED <<i, raw_data, rowspan_left>>
         ELSE /\ current_region' =
                    IF IsRegionHeader(cells) THEN get_text(cells[1]) ELSE current_region
              /\ rowspan_left' =
                    IF IsRegionHeader(cells) THEN int(Attr(cells[1], "rowspan")) - 1
                    ELSE IF rowspan_left > 0 THEN rowspan_left - 1
                    ELSE rowspan_left
              /\ raw_data' = raw_data \o RowRecord(cells, current_region')
              /\ i' = i + 1
              /\ UNCHANGED <<pc, raised>>
    /\ UNCHANGED <<env, out, trs, raw_df, processLocals, processed_df, counters>>

\* line 84: return pd.DataFrame(raw_data)
walk_return ==
    /\ pc = "walk"
    /\ i > Len(trs)
    /\ raw_df' = raw_data
    /\ pc' = "main_check_raw"
    /\ trs' = <<>>
    /\ i' = 0
    /\ raw_data' = <<>>
    /\ current_region' = None
    /\ rowspan_left' = 0
    /\ UNCHANGED <<env, out, raised, processLocals, processed_df, counters>>

\* lines 85-87: log the failure and return an empty frame
fetch_except ==
    /\ pc = "fetch_except"
    /\ out' = Append(out, "debug_fetch_failed")
    /\ raw_df' = fetch_except_result(raw_data)
    /\ pc' = "main_check_raw"
    /\ trs' = <<>>
    /\ i' = 0
    /\ raw_data' = <<>>
    /\ current_region' = None
    /\ rowspan_left' = 0
    /\ UNCHANGED <<env, raised, processLocals, processed_df, counters>>

(***************************************************************************)
(* __main__                                                                *)
(***************************************************************************)
\* variant: the result of the fetch is not examined
main_after_fetch_Unchecked(df) == "process_enter"

\* line 158: if not raw_df.empty
main_after_fetch(df) == IF df # <<>> THEN "process_enter" ELSE "print_fetch_failed"

\* line 160: if not processed_df.empty
main_after_process(df) == IF df # <<>> THEN "send_build" ELSE "print_processed_empty"

\* line 158
main_check_raw ==
    /\ pc = "main_check_raw"
    /\ pc' = main_after_fetch(raw_df)
    /\ UNCHANGED <<env, out, raised, fetchLocals, raw_df, processLocals, processed_df, counters>>

\* line 165
print_fetch_failed ==
    /\ pc = "print_fetch_failed"
    /\ out' = Append(out, "fetch_failed")
    /\ pc' = "done"
    /\ UNCHANGED <<env, raised, fetchLocals, raw_df, processLocals, processed_df, counters>>

\* line 160
main_check_processed ==
    /\ pc = "main_check_processed"
    /\ pc' = main_after_process(processed_df)
    /\ UNCHANGED <<env, out, raised, fetchLocals, raw_df, processLocals, processed_df, counters>>

\* line 163
print_processed_empty ==
    /\ pc = "print_processed_empty"
    /\ out' = Append(out, "processed_empty")
    /\ pc' = "done"
    /\ UNCHANGED <<env, raised, fetchLocals, raw_df, processLocals, processed_df, counters>>

(***************************************************************************)
(* process_data                                                            *)
(***************************************************************************)
\* line 97: the two marker labels
MarkerLabels == { <<"x", "j">>, <<"z", "j">> }

\* variant: only the subtotal label delimits groups
IsMarker_SubtotalOnly(row) == row.type = <<"x", "j">>

\* line 97: row['type'] in [subtotal label, total label]
IsMarker(row) == row.type \in MarkerLabels

\* lines 111-117: the summary of a group's first two rows
Summary(main_row, house_row) ==
    [region |-> main_row.region,
     subtotalCount |-> main_row.count, subtotalArea |-> main_row.area,
     detailCount |-> house_row.count, detailArea |-> house_row.area]

\* line 108: if len(group) >= 2
Qualifies(group) == Len(group) >= 2

\* lines 106-118: one summary per stored group with at least two rows
BuildResult(groups) ==
    LET q == SelectSeq(groups, Qualifies)
    IN [k \in 1..Len(q) |-> Summary(q[k][1], q[k][2])]

\* lines 103-104: store the open group if it has rows
Flush(groups, group) == IF group # <<>> THEN Append(groups, group) ELSE groups

\* lines 159, 91-95: the call, the empty check, the initial locals
process_enter ==
    /\ pc = "process_enter"
    /\ processCalls' = processCalls + 1
    /\ IF raw_df = <<>>
       THEN /\ processed_df' = <<>>
            /\ pc' = "main_check_processed"
            /\ UNCHANGED processLocals
       ELSE /\ j' = 1
            /\ current_group' = <<>>
            /\ processed' = <<>>
            /\ pc' = "group"
            /\ UNCHANGED processed_df
    /\ UNCHANGED <<env, out, raised, fetchLocals, raw_df,
                   httpGets, smtpConnects, smtpLogins, smtpSends>>

\* lines 96-102: one iteration of the grouping loop
process_row ==
    /\ pc = "group"
    /\ j <= Len(raw_df)
    /\ IF IsMarker(raw_df[j])
       THEN /\ processed' = Flush(processed, current_group)
            /\ current_group' = <<raw_df[j]>>
       ELSE /\ current_group' = Append(current_group, raw_df[j])
            /\ UNCHANGED processed
    /\ j' = j + 1
    /\ UNCHANGED <<env, pc, out, raised, fetchLocals, raw_df, processed_df, counters>>

\* lines 103-118: store the last group, build the summaries, return
process_return ==
    /\ pc = "group"
    /\ j > Len(raw_df)
    /\ processed_df' = BuildResult(Flush(processed, current_group))
    /\ pc' = "main_check_processed"
    /\ j' = 0
    /\ current_group' = <<>>
    /\ processed' = <<>>
    /\ UNCHANGED <<env, out, raised, fetchLocals, raw_df, counters>>

(***************************************************************************)
(* send_email_with_excel                                                   *)
(***************************************************************************)
\* variant: only smtplib's own exception classes are caught
send_catches_SMTPOnly(cls) == cls \in {"SMTPAuthenticationError", "SMTPException"}

\* line 152: except Exception
send_catches(cls) == cls \in ExceptionClasses

\* where a raise inside the try block of send_email_with_excel continues
send_raise(cls) == IF send_catches(cls) THEN "send_except" ELSE "crashed"

\* lines 122-144: write the workbook and build the message (outside the try)
send_build ==
    /\ pc = "send_build"
    /\ \/ /\ pc' = "smtp_connect"
          /\ UNCHANGED raised
       \/ /\ raised' = Append(raised, <<"send_email_with_excel.build", "ImportError">>)
          /\ pc' = "crashed"
    /\ UNCHANGED <<env, out, fetchLocals, raw_df, processLocals, processed_df, counters>>

\* lines 147-148: TLS context and SMTP_SSL connection
smtp_connect ==
    /\ pc = "smtp_connect"
    /\ smtpConnects' = smtpConnects + 1
    /\ \/ /\ pc' = "smtp_login"
          /\ UNCHANGED raised
       \/ /\ raised' = Append(raised, <<"send_email_with_excel.smtp", "OSError">>)
          /\ pc' = send_raise("OSError")
    /\ UNCHANGED <<env, out, fetchLocals, raw_df, processLocals, processed_df,
                   httpGets, processCalls, smtpLogins, smtpSends>>

\* line 149: server.login
smtp_login ==
    /\ pc = "smtp_login"
    /\ smtpLogins' = smtpLogins + 1
    /\ \/ /\ pc' = "smtp_sendmail"
          /\ UNCHANGED raised
       \/ /\ raised' = Append(raised,
                 <<"send_email_with_excel.smtp", "SMTPAuthenticationError">>)
          /\ pc' = send_raise("SMTPAuthenticationError")
    /\ UNCHANGED <<env, out, fetchLocals, raw_df, processLocals, processed_df,
                   httpGets, processCalls, smtpConnects, smtpSends>>

\* line 150: server.sendmail
smtp_sendmail ==
    /\ pc = "smtp_sendmail"
    /\ smtpSends' = smtpSends + 1
    /\ \/ /\ pc' = "print_sent"
          /\ UNCHANGED raised
       \/ /\ raised' = Append(raised, <<"send_email_with_excel.smtp", "SMTPException">>)
          /\ pc' = send_raise("SMTPException")
    /\ UNCHANGED <<env, out, fetchLocals, raw_df, processLocals, processed_df,
                   httpGets, processCalls, smtpConnects, smtpLogins>>

\* line 151: the success line
print_sent ==
    /\ pc = "print_sent"
    /\ out' = Append(out, "sent")
    /\ pc' = "done"
    /\ UNCHANGED <<env, raised, fetchLocals, raw_df, processLocals, processed_df, counters>>

\* variant: the handler goes back to the connection step
send_except_Retry ==
    /\ pc = "send_except"
    /\ out' = Append(out, "send_failed")
    /\ pc' = "smtp_connect"
    /\ UNCHANGED <<env, raised, fetchLocals, raw_df, processLocals, processed_df, counters>>

\* lines 152-153: the failure line
send_except ==
    /\ pc = "send_except"
    /\ out' = Append(out, "send_failed")
    /\ pc' = "done"
    /\ UNCHANGED <<env, raised, fetchLocals, raw_df, processLocals, processed_df, counters>>

(***************************************************************************)
(* The run                                                                 *)
(***************************************************************************)
Next ==
    \/ config_check
    \/ main_start
    \/ fetch_request
    \/ walk_row
    \/ walk_return
    \/ fetch_except
    \/ main_check_raw
    \/ print_fetch_failed
    \/ process_enter
    \/ process_row
    \/ process_return
    \/ main_check_processed
    \/ print_processed_empty
    \/ send_build
    \/ smtp_connect
    \/ smtp_login
    \/ smtp_sendmail
    \/ print_sent
    \/ send_except

Spec == Init /\ [][Next]_vars

(***************************************************************************)
(* Vocabulary of the properties                                            *)
(***************************************************************************)
Elems(s) == { s[k] : k \in 1..Len(s) }

\* the indices of 1..n that satisfy membership in S, in increasing order
Ascending(S, n) == SelectSeq([k \in 1..n |-> k], LAMBDA k : k \in S)

\* the rows of the table below the header row that the walk has passed
Walked == SubSeq(trs, 2, i - 1)

\* a row whose first cell is a th carrying a rowspan attribute
StartsRegion(row) ==
    /\ row # <<>>
    /\ row[1].name = "th"
    /\ \E p \in row[1].attrs : p[1] = "rowspan"

\* the region in force at row k of rows
RegionAt(rows, k) ==
    LET H == { m \in 1..k : StartsRegion(rows[m]) }
    IN IF H = {} THEN None
       ELSE LET last == CHOOSE m \in H : \A n \in H : n <= m
            IN RStrip(LStrip(rows[last][1].text))

\* the rows of rows that have at least three cells, as ascending indices
Emitting(rows) == Ascending({ k \in 1..Len(rows) : Len(rows[k]) >= 3 }, Len(rows))

\* the position in the record sequence of the record of row k
RecPos(rows, k) == Cardinality({ m \in 1..k : Len(rows[m]) >= 3 })

\* the type / count / area texts the row's cells give
Fields(row) ==
    LET off == IF Len(row) >= 4 THEN 1 ELSE 0
    IN << RStrip(LStrip(row[1 + off].text)),
          RStrip(LStrip(row[2 + off].text)),
          RStrip(LStrip(row[3 + off].text)) >>

\* fetch_web_data has returned to __main__
AfterFetch ==
    pc \notin {"start", "fatal", "main", "fetch_request", "walk", "fetch_except"}

\* process_data has returned to __main__
AfterProcess == processCalls = 1 /\ pc \notin {"process_enter", "group"}

RaisedIn(f) == \E k \in 1..Len(raised) : raised[k][1] = f

RaisedClass(cls) == \E k \in 1..Len(raised) : raised[k][2] = cls

\* a record whose type is one of the two marker labels
MarkerRow(r) == r.type = <<"x", "j">> \/ r.type = <<"z", "j">>

\* the summary pairing record a with record b
Pairing(a, b) ==
    [region |-> a.region, subtotalCount |-> a.count, subtotalArea |-> a.area,
     detailCount |-> b.count, detailArea |-> b.area]

\* the indices of raw at which a group starts
GroupStarts(raw) ==
    { k \in 1..Len(raw) : MarkerRow(raw[k]) } \cup (IF raw # <<>> THEN {1} ELSE {})

\* the group starts whose group has a second record
PairedStarts(raw) ==
    { k \in GroupStarts(raw) : k + 1 <= Len(raw) /\ (k + 1) \notin GroupStarts(raw) }

\* the summaries of raw: one per group with a second record, in order
Summaries(raw) ==
    LET q == Ascending(PairedStarts(raw), Len(raw))
    IN [m \in 1..Len(q) |-> Pairing(raw[q[m]], raw[q[m] + 1])]

(***************************************************************************)
(* C1: every record collected by the row walk carries as region the        *)
(* trimmed text of the first cell of the most recent row, its own or an    *)
(* earlier one, whose first cell is a th with a rowspan attribute, and     *)
(* None when there has been no such row; after a header row with           *)
(* rowspan 3 the records of the next two rows without a header cell carry  *)
(* the header row's region; with no rowspan cell every region is None.     *)
(***************************************************************************)
C1_RegionCarried ==
    pc = "walk" =>
      LET rows == Walked
          idx == Emitting(rows)
      IN /\ Len(raw_data) = Len(idx)
         /\ \A m \in 1..Len(idx) : raw_data[m].region = RegionAt(rows, idx[m])
         /\ \A k \in 1..(Len(rows) - 2) :
              ( /\ StartsRegion(rows[k]) /\ Len(rows[k]) >= 3
                /\ Attr(rows[k][1], "rowspan") = <<"3">>
                /\ Len(rows[k + 1]) >= 3 /\ ~StartsRegion(rows[k + 1])
                /\ Len(rows[k + 2]) >= 3 /\ ~StartsRegion(rows[k + 2]) )
              => /\ raw_data[RecPos(rows, k + 1)].region = raw_data[RecPos(rows, k)].region
                 /\ raw_data[RecPos(rows, k + 2)].region = raw_data[RecPos(rows, k)].region
         /\ (\A k \in 1..Len(rows) : \A c \in 1..Len(rows[k]) : rows[k][c].attrs = {})
              => \A m \in 1..Len(raw_data) : raw_data[m].region = None

\* a rowspan-3 header row followed by two rows without a header cell, walked
C1_Witness ==
    /\ pc = "walk"
    /\ i = 5
    /\ StartsRegion(trs[2]) /\ Attr(trs[2][1], "rowspan") = <<"3">>
    /\ Len(trs[3]) = 3 /\ Len(trs[4]) = 3
    /\ Len(raw_data) = 3
    /\ \A m \in 1..3 : raw_data[m].region = <<"A">>

(***************************************************************************)
(* C2: every summary returned by process_data pairs a marker record of the *)
(* input (type one of the two marker labels) with the record immediately   *)
(* following it.                                                           *)
(***************************************************************************)
C2_SummaryFromMarker ==
    AfterProcess =>
      \A m \in 1..Len(processed_df) :
        \E k \in 1..(Len(raw_df) - 1) :
          /\ MarkerRow(raw_df[k])
          /\ processed_df[m] = Pairing(raw_df[k], raw_df[k + 1])

(***************************************************************************)
(* C3: the result of process_data is, in group order, one summary per      *)
(* group with at least two records, built from the group's first and       *)
(* second record; groups start at each marker record; a group with one     *)
(* record contributes nothing.                                             *)
(***************************************************************************)
C3_GroupSummaries == AfterProcess => processed_df = Summaries(raw_df)

\* a one-record group dropped, then two groups summarised in order
C3_Witness ==
    /\ pc = "main_check_processed"
    /\ Len(raw_df) = 5
    /\ MarkerRow(raw_df[1]) /\ MarkerRow(raw_df[2]) /\ ~MarkerRow(raw_df[3])
    /\ MarkerRow(raw_df[4]) /\ ~MarkerRow(raw_df[5])
    /\ processed_df = << Pairing(raw_df[2], raw_df[3]), Pairing(raw_df[4], raw_df[5]) >>
    /\ processed_df[1] # processed_df[2]

(***************************************************************************)
(* C4: when fetch_web_data returns an empty result, process_data is never  *)
(* called, no SMTP call is made, and the run ends having printed the       *)
(* fetch-failure line.                                                     *)
(***************************************************************************)
C4_EmptyFetchSkips ==
    (AfterFetch /\ raw_df = <<>>) =>
      /\ processCalls = 0
      /\ smtpConnects = 0 /\ smtpLogins = 0 /\ smtpSends = 0
      /\ pc \in {"main_check_raw", "print_fetch_failed", "done"}
      /\ pc = "done" => ("fetch_failed" \in Elems(out) /\ "sent" \notin Elems(out))

\* a run that ended after an empty fetch
C4_Witness ==
    /\ pc = "done"
    /\ raw_df = <<>>
    /\ out = <<"banner", "debug_fetch_failed", "fetch_failed">>
    /\ processCalls = 0

(***************************************************************************)
(* C5: no error raised inside fetch_web_data leaves it: after a transport  *)
(* error, a bad status, a decoding failure, an absent table or a failure   *)
(* part-way through the row walk, the caller receives an empty result and  *)
(* none of the records collected before the failure.                       *)
(***************************************************************************)
C5_FetchNeverRaises ==
    /\ RaisedIn("fetch_web_data") =>
         /\ pc # "crashed"
         /\ AfterFetch => raw_df = <<>>
    /\ ("debug_no_table" \in Elems(out) /\ AfterFetch) => raw_df = <<>>
    /\ pc = "fetch_except" => RaisedIn("fetch_web_data")

\* the walk failed on a rowspan value and the caller holds an empty result
C5_Witness ==
    /\ pc = "main_check_raw"
    /\ raised = << <<"fetch_web_data", "ValueError">> >>
    /\ raw_df = <<>>
    /\ out = <<"banner", "debug_fetch_failed">>

(***************************************************************************)
(* C6: when one of the three configuration values is unset or empty, the   *)
(* run stops at the startup check: no HTTP GET and no SMTP call is made.   *)
(***************************************************************************)
C6_MissingConfigFatal ==
    (\E v \in {env.EMAIL_ACCOUNT, env.EMAIL_PASSWORD, env.RECIPIENT_EMAIL} :
        v = None \/ v = <<>>)
    => /\ pc \in {"start", "fatal"}
       /\ httpGets = 0
       /\ smtpConnects = 0 /\ smtpLogins = 0 /\ smtpSends = 0
       /\ pc = "fatal" => raised = << <<"module", "EnvironmentError">> >>

\* the startup check stopped a run whose password is the empty string
C6_Witness ==
    /\ pc = "fatal"
    /\ env.EMAIL_ACCOUNT = <<"v">>
    /\ env.EMAIL_PASSWORD = <<>>
    /\ env.RECIPIENT_EMAIL = <<"v">>
    /\ httpGets = 0

(***************************************************************************)
(* C7: a failure of the SMTP connection, login or submission is caught     *)
(* and logged inside send_email_with_excel: the run does not crash, it     *)
(* ends normally with the failure line and without the success line.       *)
(***************************************************************************)
C7_SendFailureCaught ==
    RaisedIn("send_email_with_excel.smtp") =>
      /\ pc \in {"send_except", "done"}
      /\ "sent" \notin Elems(out)
      /\ pc = "done" => out[Len(out)] = "send_failed"

\* a run that ended normally after the connection failed
C7_Witness ==
    /\ pc = "done"
    /\ raised = << <<"send_email_with_excel.smtp", "OSError">> >>
    /\ out = <<"banner", "send_failed">>

(***************************************************************************)
(* C8 as stated: in every run that ends, the HTTP GET and the SMTP login   *)
(* and submission have each been attempted exactly once.                   *)
(***************************************************************************)
C8_ExactlyOnce ==
    pc = "done" => (httpGets = 1 /\ smtpLogins = 1 /\ smtpSends = 1)

(***************************************************************************)
(* C8 amended: no external call is attempted more than once in a run; a    *)
(* run that ends normally has issued the HTTP GET exactly once, and has    *)
(* opened the SMTP connection exactly once when the processed data is not  *)
(* empty and not at all otherwise; login follows only a connection and     *)
(* submission only a login.                                                *)
(***************************************************************************)
C8_NoRetry ==
    /\ httpGets <= 1 /\ smtpConnects <= 1 /\ smtpLogins <= 1 /\ smtpSends <= 1
    /\ smtpSends <= smtpLogins /\ smtpLogins <= smtpConnects
    /\ pc = "done" =>
         /\ httpGets = 1
         /\ smtpConnects = 1 <=> processed_df # <<>>

\* a run whose submission failed and was not attempted again
C8_Witness ==
    /\ pc = "done"
    /\ RaisedClass("SMTPException")
    /\ httpGets = 1 /\ smtpConnects = 1 /\ smtpLogins = 1 /\ smtpSends = 1

(***************************************************************************)
(* C9 as stated: every row below the header with at least three cells      *)
(* yields exactly one record, so the number of records fetch_web_data      *)
(* returns equals the number of rows with at least three cells.            *)
(***************************************************************************)
C9_EveryRowYields ==
    [][ /\ (pc = "walk" /\ i <= Len(trs) /\ Len(trs[i]) >= 3)
           => Len(raw_data') = Len(raw_data) + 1
        /\ (pc \in {"walk", "fetch_except"} /\ pc' = "main_check_raw")
           => Len(raw_df') = Len(Emitting(SubSeq(trs, 2, Len(trs)))) ]_vars

(***************************************************************************)
(* C9 amended: for the rows the walk has passed without raising, the       *)
(* records are, in table order, one per row with at least three cells,     *)
(* with type / count / area the trimmed texts of cells 1,2,3 when the row  *)
(* has four or more cells and of cells 0,1,2 when it has three; rows with  *)
(* fewer cells yield nothing; a walk that completes holds as many records  *)
(* as the table has rows with at least three cells.  A row whose first     *)
(* cell is a th with a rowspan that is not an integer literal raises       *)
(* before anything is appended and yields no record.                       *)
(***************************************************************************)
C9_RecordsOfWalkedRows ==
    /\ (pc = "walk" \/ (pc = "fetch_except" /\ trs # <<>>)) =>
         LET rows == Walked
             idx == Emitting(rows)
         IN /\ Len(raw_data) = Len(idx)
            /\ \A m \in 1..Len(idx) :
                 <<raw_data[m].type, raw_data[m].count, raw_data[m].area>>
                   = Fields(rows[idx[m]])
    /\ (pc = "fetch_except" /\ trs # <<>>) =>
         /\ i <= Len(trs)
         /\ StartsRegion(trs[i])
         /\ ~IsIntLiteral(Attr(trs[i][1], "rowspan"))

\* a completed walk over a five-cell row, an empty row, a three-cell row
\* and a two-cell row
C9_Witness ==
    /\ pc = "walk"
    /\ i > Len(trs)
    /\ Len(trs) = 5
    /\ Len(trs[2]) = 5 /\ Len(trs[3]) = 0 /\ Len(trs[4]) = 3 /\ Len(trs[5]) = 2
    /\ Len(raw_data) = 2
    /\ raw_data[1].type = <<"z", "z">> /\ raw_data[1].count = <<"7">>
    /\ raw_data[2].type = <<"z", "j">> /\ raw_data[2].area = <<"7">>

(***************************************************************************)
(* C10: rowspan_left is never negative during the row walk, whatever       *)
(* integer rowspan value a header cell carries.                            *)
(***************************************************************************)
C10_SpanNonNegative == rowspan_left >= 0

====
